---- MODULE Spec2Model ----
(***************************************************************************)
(* Model of if.py, the interactive-fiction example built on the mecs       *)
(* entity-component store: the world-mutation helpers maplink and move,    *)
(* findByName and listjoin, the CommandSystem handlers, the turn loop      *)
(* onUpdate and the world built by main().                                 *)
(*                                                                         *)
(* A Python string is modelled as a sequence of pieces whose concatenation *)
(* is the string; a name or an argument text (" ".join(args)) is modelled  *)
(* as its sequence of whitespace-free words.                               *)
(***************************************************************************)
EXTENDS Integers, Sequences, FiniteSets, TLC

VARIABLES scene, line, out, status, exc, mv, turns, link, prev, find

vars == <<scene, line, out, status, exc, mv, turns, link, prev, find>>

(* ---------------------------------------------------------------- bounds *)
MaxTurns == 3
MaxLinks == 2
MaxMoves == 2
MaxCandidates == 2

(* -------------------------------------------------------------- entities *)
\* Entity ids in the order main() creates them (arguments are evaluated
\* before the call, so the scenery of a room precedes the room).
plant == 0
picture == 1
window == 2
rug == 3
livingroom == 4
tree == 5
garden == 6
player == 7
book == 8
box == 9
dice == 10
marble == 11
shovel == 12

Entities == 0 .. 12

\* Python's None as the result of findByName.
None == -1

Kinds == {"Player", "Name", "Description", "Inscription", "Location",
          "Container", "Map", "Environment"}

(* ------------------------------------------------------- sequence helpers *)
Range(s) == {s[i] : i \in 1 .. Len(s)}

\* list.index: position of the first occurrence of x in s, 0 if absent.
Index(s, x) ==
  IF x \in Range(s) THEN CHOOSE i \in 1 .. Len(s) : s[i] = x /\ \A j \in 1 .. (i - 1) : s[j] # x
  ELSE 0

\* list.remove: s without the first occurrence of x (x must occur).
Remove(s, x) ==
  LET i == Index(s, x) IN SubSeq(s, 1, i - 1) \o SubSeq(s, i + 1, Len(s))

Count(s, x) == Cardinality({i \in 1 .. Len(s) : s[i] = x})

\* str.join over a list of strings (each a sequence of pieces).
RECURSIVE Join(_, _)
Join(lst, sep) ==
  IF lst = <<>> THEN <<>>
  ELSE IF Len(lst) = 1 THEN lst[1]
  ELSE lst[1] \o <<sep>> \o Join(Tail(lst), sep)

\* A text made of words, as the pieces of the string with single blanks.
Words(ws) == Join([i \in 1 .. Len(ws) |-> <<ws[i]>>], " ")

(* ----------------------------------------------------------------- store *)
has(s, e, ks) == e \in Entities /\ ks \subseteq s.comps[e]

(* --------------------------------------------------------------- maplink *)
reversemap ==
  [d \in {"north", "south", "west", "east", "northeast", "southwest",
          "southeast", "northwest", "up", "down"} |->
     CASE d = "north" -> "south"
       [] d = "south" -> "north"
       [] d = "west" -> "east"
       [] d = "east" -> "west"
       [] d = "northeast" -> "southwest"
       [] d = "southwest" -> "northeast"
       [] d = "southeast" -> "northwest"
       [] d = "northwest" -> "southeast"
       [] d = "up" -> "down"
       [] d = "down" -> "up"]

Directions == DOMAIN reversemap

\* A Map (dict) is a sequence of <<direction, destination>> pairs in
\* insertion order, one pair per key.
MapKeys(m) == [i \in 1 .. Len(m) |-> m[i][1]]

MapHas(m, d) == \E i \in 1 .. Len(m) : m[i][1] = d

MapGet(m, d) == m[CHOOSE i \in 1 .. Len(m) : m[i][1] = d][2]

\* dict[key] = value: an existing key keeps its position.
MapSet(m, d, v) ==
  IF MapHas(m, d)
  THEN [i \in 1 .. Len(m) |-> IF m[i][1] = d THEN <<d, v>> ELSE m[i]]
  ELSE Append(m, <<d, v>>)

\* maplink that writes the reverse edge under the same direction.
maplink_SameDirection(s, source, direction, destination) ==
  IF direction \notin DOMAIN reversemap THEN [exc |-> "AssertionError", scene |-> s]
  ELSE IF ~has(s, source, {"Map"}) THEN [exc |-> "AssertionError", scene |-> s]
  ELSE IF ~has(s, destination, {"Map"}) THEN [exc |-> "AssertionError", scene |-> s]
  ELSE
    LET s1 == [s EXCEPT !.Map[source] = MapSet(@, direction, destination)]
        s2 == [s1 EXCEPT !.Map[destination] = MapSet(@, direction, source)]
    IN [exc |-> "none", scene |-> s2]

\* maplink that writes the source's edge before it checks the destination.
maplink_LateAssert(s, source, direction, destination) ==
  IF direction \notin DOMAIN reversemap THEN [exc |-> "AssertionError", scene |-> s]
  ELSE IF ~has(s, source, {"Map"}) THEN [exc |-> "AssertionError", scene |-> s]
  ELSE
    LET s1 == [s EXCEPT !.Map[source] = MapSet(@, direction, destination)]
        s2 == [s1 EXCEPT !.Map[destination] = MapSet(@, reversemap[direction], source)]
    IN IF ~has(s, destination, {"Map"}) THEN [exc |-> "AssertionError", scene |-> s1]
       ELSE [exc |-> "none", scene |-> s2]

maplink(s, source, direction, destination) ==
  IF direction \notin DOMAIN reversemap THEN [exc |-> "AssertionError", scene |-> s]
  ELSE IF ~has(s, source, {"Map"}) THEN [exc |-> "AssertionError", scene |-> s]
  ELSE IF ~has(s, destination, {"Map"}) THEN [exc |-> "AssertionError", scene |-> s]
  ELSE
    LET s1 == [s EXCEPT !.Map[source] = MapSet(@, direction, destination)]
        s2 == [s1 EXCEPT !.Map[destination] = MapSet(@, reversemap[direction], source)]
    IN [exc |-> "none", scene |-> s2]

(* ------------------------------------------------------------------ move *)
\* move without the removal from the old container.
move_NoRemove(s, entity, container) ==
  IF ~has(s, container, {"Container"}) THEN [exc |-> "AssertionError", scene |-> s]
  ELSE IF has(s, entity, {"Location"}) /\ ~has(s, s.Location[entity], {"Container"})
    THEN [exc |-> "AssertionError", scene |-> s]
  ELSE
    LET s2 == [s EXCEPT !.comps[entity] = @ \cup {"Location"},
                        !.Location[entity] = container]
        s3 == [s2 EXCEPT !.Container[container] = Append(@, entity)]
    IN [exc |-> "none", scene |-> s3]

\* move that checks the destination after the removal from the old container.
move_LateAssert(s, entity, container) ==
  IF has(s, entity, {"Location"}) /\ ~has(s, s.Location[entity], {"Container"})
    THEN [exc |-> "AssertionError", scene |-> s]
  ELSE IF has(s, entity, {"Location"}) /\ entity \notin Range(s.Container[s.Location[entity]])
    THEN [exc |-> "ValueError", scene |-> s]
  ELSE
    LET s1 == IF has(s, entity, {"Location"})
              THEN [s EXCEPT !.Container[s.Location[entity]] = Remove(@, entity)]
              ELSE s
        s2 == [s1 EXCEPT !.comps[entity] = @ \cup {"Location"},
                         !.Location[entity] = container]
        s3 == [s2 EXCEPT !.Container[container] = Append(@, entity)]
    IN IF ~has(s, container, {"Container"}) THEN [exc |-> "AssertionError", scene |-> s1]
       ELSE [exc |-> "none", scene |-> s3]

move(s, entity, container) ==
  IF ~has(s, container, {"Container"}) THEN [exc |-> "AssertionError", scene |-> s]
  ELSE IF has(s, entity, {"Location"}) /\ ~has(s, s.Location[entity], {"Container"})
    THEN [exc |-> "AssertionError", scene |-> s]
  ELSE IF has(s, entity, {"Location"}) /\ entity \notin Range(s.Container[s.Location[entity]])
    THEN [exc |-> "ValueError", scene |-> s]
  ELSE
    LET s1 == IF has(s, entity, {"Location"})
              THEN [s EXCEPT !.Container[s.Location[entity]] = Remove(@, entity)]
              ELSE s
        s2 == [s1 EXCEPT !.comps[entity] = @ \cup {"Location"},
                         !.Location[entity] = container]
        s3 == [s2 EXCEPT !.Container[container] = Append(@, entity)]
    IN [exc |-> "none", scene |-> s3]

(* ------------------------------------------------------------------ Name *)
\* str.lower on the words the model uses; every other word is already lower
\* case.
Lower(w) ==
  CASE w = "Player" -> "player"
    [] w = "The" -> "the"
    [] w = "Living" -> "living"
    [] w = "Room" -> "room"
    [] w = "Garden" -> "garden"
    [] w = "WEST" -> "west"
    [] w = "Look" -> "look"
    [] w = "Take" -> "take"
    [] w = "Book" -> "book"
    [] OTHER -> w

LowerAll(ws) == [i \in 1 .. Len(ws) |-> Lower(ws[i])]

\* Name(name, article): article "" stands for None (both are falsy).
Name(name, article) == [name |-> name, article |-> article]

NameGet(n, definite) ==
  (IF n.article # "" THEN (IF definite THEN <<"the ">> ELSE <<n.article, " ">>) ELSE <<>>)
    \o Words(n.name)

NameMatch(n, string) == LowerAll(string) = LowerAll(n.name)

(* -------------------------------------------------------------- listjoin *)
listjoin(lst, connector) ==
  IF lst = <<>> THEN <<>>
  ELSE IF Len(lst) = 1 THEN lst[1]
  ELSE Join(SubSeq(lst, 1, Len(lst) - 1), ", ") \o <<" ", connector, " ">> \o lst[Len(lst)]

(* ------------------------------------------------------------ findByName *)
\* The elements of the candidate sequence s that have a Name matching name,
\* in order (the generator expression of findByName).
RECURSIVE SelectIn(_, _, _)
SelectIn(s, sc, name) ==
  IF s = <<>> THEN <<>>
  ELSE IF has(sc, Head(s), {"Name"}) /\ NameMatch(sc.Name[Head(s)], name)
       THEN <<Head(s)>> \o SelectIn(Tail(s), sc, name)
       ELSE SelectIn(Tail(s), sc, name)

findByName_Last(s, name, container) ==
  LET hits == SelectIn(container, s, name)
  IN IF hits = <<>> THEN None ELSE hits[Len(hits)]

findByName(s, name, container) ==
  LET hits == SelectIn(container, s, name)
  IN IF hits = <<>> THEN None ELSE hits[1]

(* ------------------------------------------------------------------ main *)
EmptyScene ==
  [comps |-> [e \in Entities |-> {}],
   Name |-> [e \in Entities |-> Name(<<>>, "")],
   Description |-> [e \in Entities |-> ""],
   Inscription |-> [e \in Entities |-> ""],
   Environment |-> [e \in Entities |-> ""],
   Location |-> [e \in Entities |-> None],
   Container |-> [e \in Entities |-> <<>>],
   Map |-> [e \in Entities |-> <<>>]]

\* scene.new(*components) for the entity id e; cs maps each component kind
\* given to its value.
new(s, e, cs) ==
  [f \in DOMAIN s |->
     IF f = "comps" THEN [s.comps EXCEPT ![e] = DOMAIN cs]
     ELSE IF f \in DOMAIN cs THEN [s[f] EXCEPT ![e] = cs[f]]
     ELSE s[f]]

\* The entities of the two rooms and their scenery, before any link or move.
Rooms ==
  LET s1 == new(EmptyScene, plant,
                [Name |-> Name(<<"plant">>, "a"),
                 Description |-> "It has seen better days.",
                 Environment |-> "Over in the corner there is a plant."])
      s2 == new(s1, picture,
                [Name |-> Name(<<"picture">>, "a"),
                 Description |-> "A boat on a lake.",
                 Environment |-> "There is a picture on the wall."])
      s3 == new(s2, window,
                [Name |-> Name(<<"window">>, "a"),
                 Description |-> "The sun is shining outside.",
                 Environment |-> "On the west side of the room there is a window."])
      s4 == new(s3, rug,
                [Name |-> Name(<<"rug">>, "a"),
                 Description |-> "An antique oriental rug.",
                 Environment |-> "There is a rug on the floor."])
      s5 == new(s4, livingroom,
                [Name |-> Name(<<"The", "Living", "Room">>, ""),
                 Description |-> "This is the living room.",
                 Container |-> <<plant, picture, window, rug>>,
                 Map |-> <<>>])
      s6 == new(s5, tree,
                [Name |-> Name(<<"tree">>, ""),
                 Description |-> "It's an apple tree.",
                 Environment |-> "In the middle of the garden is a large tree."])
      s7 == new(s6, garden,
                [Name |-> Name(<<"The", "Garden">>, ""),
                 Description |-> "This is the garden.",
                 Container |-> <<tree>>,
                 Map |-> <<>>])
  IN s7

main ==
  LET s8 == maplink(Rooms, livingroom, "west", garden).scene
      s9 == new(s8, player,
                [Player |-> TRUE,
                 Name |-> Name(<<"Player">>, ""),
                 Description |-> "This is you.",
                 Container |-> <<>>])
      s10 == move(s9, player, livingroom).scene
      s11 == new(s10, book,
                 [Name |-> Name(<<"book">>, "a"),
                  Description |-> "'Alice's Adventures in Wonderland' by Lewis Carroll.",
                  Inscription |-> "Alice was beginning to get very tired of sitting by her sister on the bank, and of having nothing to do: once or twice she had peeped into the book her sister was reading, but it had no pictures or conversations in it, 'and what is the use of a book,' thought Alice 'without pictures or conversations?'"])
      s12 == move(s11, book, livingroom).scene
      s13 == new(s12, box,
                 [Name |-> Name(<<"box">>, "a"),
                  Description |-> "A box.",
                  Container |-> <<>>])
      s14 == move(s13, box, livingroom).scene
      s15 == new(s14, dice,
                 [Name |-> Name(<<"die">>, "a"),
                  Description |-> "A small die."])
      s16 == move(s15, dice, box).scene
      s17 == new(s16, marble,
                 [Name |-> Name(<<"marble">>, "a"),
                  Description |-> "A white marble."])
      s18 == move(s17, marble, livingroom).scene
      s19 == new(s18, shovel,
                 [Name |-> Name(<<"shovel">>, "a"),
                  Description |-> "A small chrome shovel."])
      s20 == move(s19, shovel, garden).scene
  IN s20

(* ------------------------------------------------------ handler results *)
\* What a call leaves behind: the scene, the returned string (msg), the
\* exception that left the call ("none" when it returned) and the calls to
\* move it made.
Return(s, msg, mvs) == [scene |-> s, msg |-> msg, exc |-> "none", mv |-> mvs]

Raise(s, e, mvs) == [scene |-> s, msg |-> <<>>, exc |-> e, mv |-> mvs]

\* The record of one call move(entity, container) made in scene s.
MoveCall(s, e, c) ==
  [entity |-> e, container |-> c,
   had |-> has(s, e, {"Location"}), prev |-> s.Location[e],
   ok |-> move(s, e, c).exc = "none"]

(* ------------------------------------------------------------- str.split *)
\* name.split(sep) for name = " ".join(ws) and the separator " sep ": a word
\* equal to sep separates when a blank precedes and follows it and the blank
\* before it was not used up by the separator just before.
RECURSIVE SplitFrom(_, _, _, _, _)
SplitFrom(ws, sep, i, cur, prevMatched) ==
  IF i > Len(ws) THEN <<cur>>
  ELSE IF ws[i] = sep /\ i > 1 /\ i < Len(ws) /\ ~prevMatched
       THEN <<cur>> \o SplitFrom(ws, sep, i + 1, <<>>, TRUE)
       ELSE SplitFrom(ws, sep, i + 1, Append(cur, ws[i]), FALSE)

Split(ws, sep) == SplitFrom(ws, sep, 1, <<>>, FALSE)

(* --------------------------------------------------------------- cmdHelp *)
HELP ==
  << <<"help", "Get help for a specific command with 'help <command>'.">>,
     <<"look", "You can look at your environment with 'look' or at specific things with 'look <thing>'. The shorthand for 'look' is 'l'.">>,
     <<"examine", "You can examine things with 'examine <thing>'. This is the same as 'look <thing>'. The shorthand for 'examine' is 'x'.">>,
     <<"go", "You can move through the world with 'go <direction>' where north, south, west, east, northwest, northeast, southwest, southeast, up, and down are valid directions. Their shorthands are n, s, w, e, nw, ne, sw, se, u, and d. You can also use the direction directly, without writing 'go' explicitly. For instance to go north use 'go north' or 'north' or 'n'.">>,
     <<"inventory", "You can view the things that you are carrying with this command. The shorthand is 'i'.">>,
     <<"take", "To add something to your inventory use 'take <thing>'. To take something from a container use 'take <thing> from <container>'.">>,
     <<"drop", "Drop things in your inventory with 'drop <thing>'. To drop something into a container use 'drop <thing> into <container>'.">>,
     <<"read", "You can read a book or some other text with 'read <thing>'.">> >>

RECURSIVE HelpList(_)
HelpList(h) ==
  IF h = <<>> THEN <<>> ELSE <<"\n  ", h[1][1]>> \o HelpList(Tail(h))

cmdHelp(s, p, args) ==
  IF Len(args) = 1
  THEN IF ~MapHas(HELP, args[1])
       THEN Return(s, <<"There is no such command. Try 'help' for a list or commands.">>, <<>>)
       ELSE Return(s, <<MapGet(HELP, args[1])>>, <<>>)
  ELSE Return(s, <<"Get further help with 'help <command>'.",
                   "\nThe following commands are available:">> \o HelpList(HELP), <<>>)

(* --------------------------------------------------------------- cmdLook *)
\* [eid for eid in c if eid in keep], in the order of c.
RECURSIVE Filter(_, _)
Filter(c, keep) ==
  IF c = <<>> THEN <<>>
  ELSE IF Head(c) \in keep THEN <<Head(c)>> \o Filter(Tail(c), keep)
       ELSE Filter(Tail(c), keep)

\* lookThings without the exclusion of entities that carry an Environment.
lookThings_WithScenery(s, p, location) ==
  Filter(s.Container[location],
         {eid \in Entities : eid # p /\ has(s, eid, {"Name"})})

lookThings(s, p, location) ==
  Filter(s.Container[location],
         {eid \in Entities : eid # p /\ has(s, eid, {"Name"}) /\ ~has(s, eid, {"Environment"})})

lookEnv(s, location) ==
  Filter(s.Container[location],
         {eid \in Entities : has(s, eid, {"Environment"}) /\ s.Environment[eid] # ""})

\* look with no arguments, once the player's components are asserted.
cmdLook_room(s, p, location) ==
  IF ~has(s, location, {"Name", "Description", "Container", "Map"})
  THEN Raise(s, "AssertionError", <<>>)
  ELSE
    LET things == lookThings(s, p, location)
        envs == lookEnv(s, location)
        env == [i \in 1 .. Len(envs) |-> <<s.Environment[envs[i]]>>]
        displaynames == [i \in 1 .. Len(things) |-> NameGet(s.Name[things[i]], FALSE)]
        keys == MapKeys(s.Map[location])
    IN Return(s,
         NameGet(s.Name[location], FALSE) \o <<"\n\n">>
           \o <<s.Description[location]>>
           \o (IF Len(env) > 0 THEN <<" ">> \o Join(env, " ") ELSE <<>>)
           \o <<"\n\n">>
           \o (IF Len(things) > 0
               THEN <<"Here ", IF Len(displaynames) > 1 THEN "are" ELSE "is", " ">>
                      \o listjoin(displaynames, "and") \o <<".\n\n">>
               ELSE <<>>)
           \o <<"You can go ">>
           \o listjoin([i \in 1 .. Len(keys) |-> <<keys[i]>>], "or") \o <<".">>,
         <<>>)

\* look <thing>; scope is the candidate sequence handed to findByName.
cmdLook_thing(s, p, name, scope) ==
  LET thing == findByName(s, name, scope) IN
  IF thing = None THEN Return(s, <<"There is no such thing.">>, <<>>)
  ELSE IF ~has(s, thing, {"Description"}) /\ ~has(s, thing, {"Container"})
  THEN Return(s, <<"There is nothing special about ">>
                   \o NameGet(s.Name[thing], TRUE) \o <<".">>, <<>>)
  ELSE
    LET named == Filter(s.Container[thing], {eid \in Entities : has(s, eid, {"Name"})})
        things == [i \in 1 .. Len(named) |-> NameGet(s.Name[named[i]], FALSE)]
    IN Return(s,
         (IF has(s, thing, {"Description"}) THEN <<s.Description[thing]>> ELSE <<>>)
           \o (IF has(s, thing, {"Container"})
               THEN IF Len(things) > 0
                    THEN <<" It contains ">> \o listjoin(things, "and") \o <<".">>
                    ELSE <<" It is empty.">>
               ELSE <<>>),
         <<>>)

\* cmdLook building the candidate list by extending the location's Container
\* in place (list += list) instead of concatenating into a new list.
cmdLook_Extend(s, p, args) ==
  IF ~has(s, p, {"Location", "Container"}) THEN Raise(s, "AssertionError", <<>>)
  ELSE
    LET location == s.Location[p] IN
    IF args = <<>> THEN cmdLook_room(s, p, location)
    ELSE IF ~has(s, location, {"Container"}) THEN Raise(s, "KeyError", <<>>)
    ELSE
      LET s1 == [s EXCEPT !.Container[location] = @ \o s.Container[p]]
      IN cmdLook_thing(s1, p, args, s1.Container[location])

cmdLook(s, p, args) ==
  IF ~has(s, p, {"Location", "Container"}) THEN Raise(s, "AssertionError", <<>>)
  ELSE
    LET location == s.Location[p] IN
    IF args = <<>> THEN cmdLook_room(s, p, location)
    ELSE IF ~has(s, location, {"Container"}) THEN Raise(s, "KeyError", <<>>)
    ELSE cmdLook_thing(s, p, args, s.Container[location] \o s.Container[p])

(* ------------------------------------------------------------ cmdExamine *)
cmdExamine(s, p, args) ==
  IF args = <<>> THEN Return(s, <<"You have to name a thing to examine.">>, <<>>)
  ELSE cmdLook(s, p, args)

(* ----------------------------------------------------------------- cmdGo *)
expansion ==
  [a \in {"n", "s", "w", "e", "nw", "ne", "sw", "se", "u", "d"} |->
     CASE a = "n" -> "north"
       [] a = "s" -> "south"
       [] a = "w" -> "west"
       [] a = "e" -> "east"
       [] a = "nw" -> "northwest"
       [] a = "ne" -> "northeast"
       [] a = "sw" -> "southwest"
       [] a = "se" -> "southeast"
       [] a = "u" -> "up"
       [] a = "d" -> "down"]

\* " ".join(args) after the expansion of an abbreviation, as words: only a
\* one-word text can be a key of expansion or of a Map.
goDirection_NoExpand(args) == args

goDirection(args) ==
  IF Len(args) = 1 /\ args[1] \in DOMAIN expansion THEN <<expansion[args[1]]>> ELSE args

\* cmdGo rendering look before the move, so that the room left is described.
cmdGo_LookFirst(s, p, args) ==
  IF args = <<>> THEN Return(s, <<"You have to name a direction to go towards.">>, <<>>)
  ELSE IF ~has(s, p, {"Location"}) THEN Raise(s, "AssertionError", <<>>)
  ELSE
    LET location == s.Location[p] IN
    IF ~has(s, location, {"Map"}) THEN Raise(s, "AssertionError", <<>>)
    ELSE
      LET map == s.Map[location]
          direction == goDirection(args)
      IN
      IF ~(Len(direction) = 1 /\ MapHas(map, direction[1]))
      THEN Return(s, <<"You cannot go this way.">>, <<>>)
      ELSE
        LET destination == MapGet(map, direction[1])
            call == MoveCall(s, p, destination)
            moved == move(s, p, destination)
        IN
        IF moved.exc # "none" THEN Raise(moved.scene, moved.exc, <<call>>)
        ELSE
          LET looked == cmdLook(s, p, <<>>)
          IN [looked EXCEPT !.scene = moved.scene, !.mv = <<call>>]

cmdGo(s, p, args) ==
  IF args = <<>> THEN Return(s, <<"You have to name a direction to go towards.">>, <<>>)
  ELSE IF ~has(s, p, {"Location"}) THEN Raise(s, "AssertionError", <<>>)
  ELSE
    LET location == s.Location[p] IN
    IF ~has(s, location, {"Map"}) THEN Raise(s, "AssertionError", <<>>)
    ELSE
      LET map == s.Map[location]
          direction == goDirection(args)
      IN
      IF ~(Len(direction) = 1 /\ MapHas(map, direction[1]))
      THEN Return(s, <<"You cannot go this way.">>, <<>>)
      ELSE
        LET destination == MapGet(map, direction[1])
            call == MoveCall(s, p, destination)
            moved == move(s, p, destination)
        IN
        IF moved.exc # "none" THEN Raise(moved.scene, moved.exc, <<call>>)
        ELSE
          LET looked == cmdLook(moved.scene, p, <<>>)
          IN [looked EXCEPT !.mv = <<call>>]

cmdNorth(s, p, args) == cmdGo(s, p, <<"north">> \o args)

cmdSouth(s, p, args) == cmdGo(s, p, <<"south">> \o args)

cmdEast(s, p, args) == cmdGo(s, p, <<"east">> \o args)

cmdWest(s, p, args) == cmdGo(s, p, <<"west">> \o args)

cmdNorthwest(s, p, args) == cmdGo(s, p, <<"northwest">> \o args)

cmdSouthwest(s, p, args) == cmdGo(s, p, <<"southwest">> \o args)

cmdNortheast(s, p, args) == cmdGo(s, p, <<"northeast">> \o args)

cmdSoutheast(s, p, args) == cmdGo(s, p, <<"southeast">> \o args)

cmdUp(s, p, args) == cmdGo(s, p, <<"up">> \o args)

cmdDown(s, p, args) == cmdGo(s, p, <<"down">> \o args)

(* ---------------------------------------------------------- cmdInventory *)
cmdInventory(s, p, args) ==
  IF ~has(s, p, {"Container"}) THEN Raise(s, "AssertionError", <<>>)
  ELSE
    LET inventory == s.Container[p]
        named == Filter(inventory, {eid \in Entities : has(s, eid, {"Name"})})
        names == [i \in 1 .. Len(named) |-> <<"\n  ">> \o NameGet(s.Name[named[i]], FALSE)]
    IN
    IF Len(named) = 0 THEN Return(s, <<"You are carrying nothing.">>, <<>>)
    ELSE Return(s, <<"You carry the following things:">> \o Join(names, ""), <<>>)

(* --------------------------------------------------------------- cmdTake *)
\* cmdTake_thing that moves the thing before it looks at Environment.
cmdTake_thing_MoveFirst(s, p, thing) ==
  IF thing = None THEN Return(s, <<"There is no such thing.">>, <<>>)
  ELSE IF has(s, thing, {"Location"}) /\ s.Location[thing] = p
  THEN Return(s, <<"You already have that.">>, <<>>)
  ELSE
    LET call == MoveCall(s, thing, p)
        moved == move(s, thing, p)
    IN
    IF moved.exc # "none" THEN Raise(moved.scene, moved.exc, <<call>>)
    ELSE IF has(s, thing, {"Environment"})
    THEN Return(moved.scene, <<"You are unable to take that.">>, <<call>>)
    ELSE Return(moved.scene, <<"Taken.">>, <<call>>)

\* cmdTake_thing that appends the thing to the inventory itself instead of
\* calling move.
cmdTake_thing_Append(s, p, thing) ==
  IF thing = None THEN Return(s, <<"There is no such thing.">>, <<>>)
  ELSE IF has(s, thing, {"Location"}) /\ s.Location[thing] = p
  THEN Return(s, <<"You already have that.">>, <<>>)
  ELSE IF has(s, thing, {"Environment"})
  THEN Return(s, <<"You are unable to take that.">>, <<>>)
  ELSE Return([s EXCEPT !.Container[p] = Append(@, thing)], <<"Taken.">>, <<>>)

\* cmdTake_thing without the rejection of a thing that carries an Environment.
cmdTake_thing_NoEnvironmentCheck(s, p, thing) ==
  IF thing = None THEN Return(s, <<"There is no such thing.">>, <<>>)
  ELSE IF has(s, thing, {"Location"}) /\ s.Location[thing] = p
  THEN Return(s, <<"You already have that.">>, <<>>)
  ELSE
    LET call == MoveCall(s, thing, p)
        moved == move(s, thing, p)
    IN
    IF moved.exc # "none" THEN Raise(moved.scene, moved.exc, <<call>>)
    ELSE Return(moved.scene, <<"Taken.">>, <<call>>)

\* The checks and the move that follow the resolution of the thing.
cmdTake_thing(s, p, thing) ==
  IF thing = None THEN Return(s, <<"There is no such thing.">>, <<>>)
  ELSE IF has(s, thing, {"Location"}) /\ s.Location[thing] = p
  THEN Return(s, <<"You already have that.">>, <<>>)
  ELSE IF has(s, thing, {"Environment"})
  THEN Return(s, <<"You are unable to take that.">>, <<>>)
  ELSE
    LET call == MoveCall(s, thing, p)
        moved == move(s, thing, p)
    IN
    IF moved.exc # "none" THEN Raise(moved.scene, moved.exc, <<call>>)
    ELSE Return(moved.scene, <<"Taken.">>, <<call>>)

\* cmdTake that looks for the thing in the room and the inventory also when a
\* from-clause names a container.
cmdTake_ScopeOnly(s, p, args) ==
  IF args = <<>> THEN Return(s, <<"You have to name a thing to take.">>, <<>>)
  ELSE IF ~has(s, p, {"Location", "Container"}) THEN Raise(s, "AssertionError", <<>>)
  ELSE
    LET location == s.Location[p] IN
    IF ~has(s, location, {"Container"}) THEN Raise(s, "AssertionError", <<>>)
    ELSE
      LET scope == s.Container[location] \o s.Container[p]
          parts == Split(args, "from")
          clause == Len(parts) > 1
          name == IF clause THEN parts[1] ELSE args
          found == IF clause THEN findByName(s, parts[2], scope) ELSE None
          container == scope
      IN
      IF clause /\ Len(parts) # 2 THEN Raise(s, "ValueError", <<>>)
      ELSE IF clause /\ found = None THEN Return(s, <<"There is no such container.">>, <<>>)
      ELSE IF clause /\ ~has(s, found, {"Container"}) THEN Return(s, <<"You cannot do that.">>, <<>>)
      ELSE cmdTake_thing(s, p, findByName(s, name, container))

(* --------------------------------------------------------------- cmdDrop *)
cmdTake(s, p, args) ==
  IF args = <<>> THEN Return(s, <<"You have to name a thing to take.">>, <<>>)
  ELSE IF ~has(s, p, {"Location", "Container"}) THEN Raise(s, "AssertionError", <<>>)
  ELSE
    LET location == s.Location[p] IN
    IF ~has(s, location, {"Container"}) THEN Raise(s, "AssertionError", <<>>)
    ELSE
      LET scope == s.Container[location] \o s.Container[p]
          parts == Split(args, "from")
          clause == Len(parts) > 1
          name == IF clause THEN parts[1] ELSE args
          found == IF clause THEN findByName(s, parts[2], scope) ELSE None
          container == IF clause THEN s.Container[found] ELSE scope
      IN
      IF clause /\ Len(parts) # 2 THEN Raise(s, "ValueError", <<>>)
      ELSE IF clause /\ found = None THEN Return(s, <<"There is no such container.">>, <<>>)
      ELSE IF clause /\ ~has(s, found, {"Container"}) THEN Return(s, <<"You cannot do that.">>, <<>>)
      ELSE cmdTake_thing(s, p, findByName(s, name, container))

(* --------------------------------------------------------------- cmdDrop *)
\* The checks and the move that follow the resolution of thing and container.
cmdDrop_thing_Direct(s, p, thing, container) ==
  IF thing = None THEN Return(s, <<"There is no such thing.">>, <<>>)
  ELSE IF ~has(s, thing, {"Location"}) THEN Raise(s, "AssertionError", <<>>)
  ELSE IF s.Location[thing] # p THEN Return(s, <<"You do not have that.">>, <<>>)
  ELSE IF thing = container THEN Return(s, <<"You cannot do that.">>, <<>>)
  ELSE Return([s EXCEPT !.Location[thing] = container], <<"Dropped.">>, <<>>)

cmdDrop_thing(s, p, thing, container) ==
  IF thing = None THEN Return(s, <<"There is no such thing.">>, <<>>)
  ELSE IF ~has(s, thing, {"Location"}) THEN Raise(s, "AssertionError", <<>>)
  ELSE IF s.Location[thing] # p THEN Return(s, <<"You do not have that.">>, <<>>)
  ELSE IF thing = container THEN Return(s, <<"You cannot do that.">>, <<>>)
  ELSE
    LET call == MoveCall(s, thing, container)
        moved == move(s, thing, container)
    IN
    IF moved.exc # "none" THEN Raise(moved.scene, moved.exc, <<call>>)
    ELSE Return(moved.scene, <<"Dropped.">>, <<call>>)

cmdDrop(s, p, args) ==
  IF args = <<>> THEN Return(s, <<"You have to name a thing to drop.">>, <<>>)
  ELSE IF ~has(s, p, {"Location", "Container"}) THEN Raise(s, "AssertionError", <<>>)
  ELSE
    LET location == s.Location[p] IN
    IF ~has(s, location, {"Container"}) THEN Raise(s, "AssertionError", <<>>)
    ELSE
      LET scope == s.Container[p] \o s.Container[location]
          parts == Split(args, "into")
          clause == Len(parts) > 1
          name == IF clause THEN parts[1] ELSE args
          container == IF clause THEN findByName(s, parts[2], scope) ELSE location
      IN
      IF clause /\ Len(parts) # 2 THEN Raise(s, "ValueError", <<>>)
      ELSE IF clause /\ container = None THEN Return(s, <<"There is no such container.">>, <<>>)
      ELSE IF clause /\ ~has(s, container, {"Container"}) THEN Return(s, <<"You cannot do that.">>, <<>>)
      ELSE cmdDrop_thing(s, p, findByName(s, name, scope), container)

(* --------------------------------------------------------------- cmdRead *)
cmdRead(s, p, args) ==
  IF args = <<>> THEN Return(s, <<"You have to name a thing you want to read.">>, <<>>)
  ELSE IF ~has(s, p, {"Container", "Location"}) THEN Raise(s, "AssertionError", <<>>)
  ELSE
    LET location == s.Location[p] IN
    IF ~has(s, location, {"Container"}) THEN Raise(s, "AssertionError", <<>>)
    ELSE
      LET thing == findByName(s, args, s.Container[p] \o s.Container[location]) IN
      IF thing = None THEN Return(s, <<"There is no such thing.">>, <<>>)
      ELSE IF ~has(s, thing, {"Inscription"}) THEN Return(s, <<"There is nothing to read.">>, <<>>)
      ELSE Return(s, <<"It says: '", s.Inscription[thing], "'">>, <<>>)

(* -------------------------------------------------------------- onUpdate *)
COMMANDS ==
  [c \in {"help", "look", "l", "examine", "x", "go",
          "north", "n", "south", "s", "west", "w", "east", "e",
          "northwest", "nw", "northeast", "ne", "southwest", "sw", "southeast", "se",
          "up", "u", "down", "d", "inventory", "i", "take", "drop", "read"} |->
     CASE c = "help" -> "cmdHelp"
       [] c \in {"look", "l"} -> "cmdLook"
       [] c \in {"examine", "x"} -> "cmdExamine"
       [] c = "go" -> "cmdGo"
       [] c \in {"north", "n"} -> "cmdNorth"
       [] c \in {"south", "s"} -> "cmdSouth"
       [] c \in {"west", "w"} -> "cmdWest"
       [] c \in {"east", "e"} -> "cmdEast"
       [] c \in {"northwest", "nw"} -> "cmdNorthwest"
       [] c \in {"northeast", "ne"} -> "cmdNortheast"
       [] c \in {"southwest", "sw"} -> "cmdSouthwest"
       [] c \in {"southeast", "se"} -> "cmdSoutheast"
       [] c \in {"up", "u"} -> "cmdUp"
       [] c \in {"down", "d"} -> "cmdDown"
       [] c \in {"inventory", "i"} -> "cmdInventory"
       [] c = "take" -> "cmdTake"
       [] c = "drop" -> "cmdDrop"
       [] c = "read" -> "cmdRead"]

\* self._COMMANDS[cmd](scene, eid, *args)
Call(h, s, p, args) ==
  CASE h = "cmdHelp" -> cmdHelp(s, p, args)
    [] h = "cmdLook" -> cmdLook(s, p, args)
    [] h = "cmdExamine" -> cmdExamine(s, p, args)
    [] h = "cmdGo" -> cmdGo(s, p, args)
    [] h = "cmdNorth" -> cmdNorth(s, p, args)
    [] h = "cmdSouth" -> cmdSouth(s, p, args)
    [] h = "cmdWest" -> cmdWest(s, p, args)
    [] h = "cmdEast" -> cmdEast(s, p, args)
    [] h = "cmdNorthwest" -> cmdNorthwest(s, p, args)
    [] h = "cmdNortheast" -> cmdNortheast(s, p, args)
    [] h = "cmdSouthwest" -> cmdSouthwest(s, p, args)
    [] h = "cmdSoutheast" -> cmdSoutheast(s, p, args)
    [] h = "cmdUp" -> cmdUp(s, p, args)
    [] h = "cmdDown" -> cmdDown(s, p, args)
    [] h = "cmdInventory" -> cmdInventory(s, p, args)
    [] h = "cmdTake" -> cmdTake(s, p, args)
    [] h = "cmdDrop" -> cmdDrop(s, p, args)
    [] h = "cmdRead" -> cmdRead(s, p, args)

\* input("> ").lower().split(): the line is a sequence of pieces, each a word
\* or a run of whitespace " ".
Tokens(l) == SelectSeq(LowerAll(l), LAMBDA w : w # " ")

UnknownCommand == <<"You don't know how to do this, but you can always ask for 'help'.">>

\* One pass of the loop body of onUpdate for the player entity eid, on the
\* input line l.
update(s, eid, l) ==
  LET toks == Tokens(l) IN
  IF toks = <<>> THEN Raise(s, "ValueError", <<>>)
  ELSE
    LET cmd == Head(toks)
        args == Tail(toks)
    IN IF cmd \in DOMAIN COMMANDS
       THEN Call(COMMANDS[cmd], s, eid, args)
       ELSE Return(s, UnknownCommand, <<>>)

\* scene.select(Player): the entities carrying the Player tag.
Players(s) == {e \in Entities : has(s, e, {"Player"})}

(* ----------------------------------------------------------- input lines *)
Spaced(ws) == Words(ws)

InputLines ==
  { Spaced(ws) : ws \in
      { <<"help">>, <<"help", "look">>, <<"help", "x">>, <<"help", "me", "now">>,
        <<"look">>, <<"l">>, <<"Look">>, <<"look", "book">>, <<"look", "box">>,
        <<"look", "plant">>, <<"look", "player">>, <<"look", "unicorn">>,
        <<"examine">>, <<"x", "book">>, <<"examine", "box">>,
        <<"go">>, <<"go", "west">>, <<"go", "w">>, <<"west">>, <<"w">>, <<"WEST">>,
        <<"east">>, <<"e">>, <<"go", "east">>, <<"north">>, <<"go", "up">>,
        <<"west", "now">>, <<"go", "west", "now">>,
        <<"inventory">>, <<"i">>,
        <<"take">>, <<"take", "book">>, <<"Take", "Book">>, <<"take", "box">>,
        <<"take", "die">>, <<"take", "die", "from", "box">>, <<"take", "marble">>,
        <<"take", "shovel">>, <<"take", "plant">>, <<"take", "player">>,
        <<"take", "die", "from", "box", "from", "box">>,
        <<"take", "die", "from", "from", "box">>,
        <<"take", "book", "from", "marble">>, <<"take", "die", "from", "chest">>,
        <<"drop">>, <<"drop", "book">>, <<"drop", "plant">>, <<"drop", "box">>,
        <<"drop", "die">>, <<"drop", "marble">>, <<"drop", "player">>,
        <<"drop", "book", "into", "box">>, <<"drop", "box", "into", "box">>,
        <<"drop", "book", "into", "player">>, <<"drop", "player", "into", "box">>,
        <<"drop", "book", "into", "box", "into", "box">>,
        <<"drop", "book", "into", "marble">>, <<"drop", "book", "into", "chest">>,
        <<"read">>, <<"read", "book">>, <<"read", "box">>, <<"read", "novel">>,
        <<"dance">>, <<"xyzzy", "book">> } }
    \cup { <<>>, <<" ">>, <<" ", "look", " ">>, <<"take", " ", "book", " ">> }

(* ------------------------------------------------------------------ play *)
\* What is remembered of the turn before the last one: whether it was a call
\* of look without arguments that returned, and the response if it was.
NoTurn == [look |-> FALSE, out |-> <<>>]

\* The last response came from look without arguments: the call of onStart,
\* or a turn whose line is look or l.
LookedAround ==
  /\ exc = "none"
  /\ turns = 0 \/ Tokens(line) \in {<<"look">>, <<"l">>}

\* No call of findByName recorded.
NoFind == [name |-> <<>>, candidates |-> <<>>, result |-> None]

NoLink == [source |-> None, direction |-> "", destination |-> None, exc |-> "none"]

\* The world main() builds, and the response onStart prints.
Init ==
  /\ scene = main
  /\ line = <<>>
  /\ out = cmdLook(main, player, <<>>).msg
  /\ status = "running"
  /\ exc = "none"
  /\ mv = <<>>
  /\ turns = 0
  /\ link = NoLink
  /\ prev = NoTurn
  /\ find = NoFind

\* One turn: onUpdate reads the line l and prints the response; an exception
\* that leaves the handler ends the program (main catches KeyboardInterrupt
\* only).
onUpdate(l) ==
  /\ status = "running"
  /\ turns < MaxTurns
  /\ LET eid == CHOOSE e \in Players(scene) : TRUE
         r == update(scene, eid, l)
     IN /\ scene' = r.scene
        /\ out' = r.msg
        /\ exc' = r.exc
        /\ mv' = r.mv
        /\ status' = IF r.exc = "none" THEN "running" ELSE "aborted"
  /\ line' = l
  /\ turns' = turns + 1
  /\ prev' = IF LookedAround THEN [look |-> TRUE, out |-> out] ELSE NoTurn
  /\ UNCHANGED <<link, find>>

Next == \E l \in InputLines : onUpdate(l)

Spec == Init /\ [][Next]_vars

(* ----------------------------------------------------------- world-build *)
LinkEntities == {livingroom, garden, plant}

LinkDirections == Directions \cup {"sideways"}

\* The rooms as created, before main() links them.
InitLink ==
  /\ scene = Rooms
  /\ line = <<>>
  /\ out = <<>>
  /\ status = "running"
  /\ exc = "none"
  /\ mv = <<>>
  /\ turns = 0
  /\ link = NoLink
  /\ prev = NoTurn
  /\ find = NoFind

\* A call maplink(scene, a, d, b) during world-build.
Link(a, d, b) ==
  /\ turns < MaxLinks
  /\ LET r == maplink(scene, a, d, b)
     IN /\ scene' = r.scene
        /\ link' = [source |-> a, direction |-> d, destination |-> b, exc |-> r.exc]
  /\ turns' = turns + 1
  /\ UNCHANGED <<line, out, status, exc, mv, prev, find>>

NextLink == \E a \in LinkEntities, b \in LinkEntities, d \in LinkDirections : Link(a, d, b)

SpecLink == InitLink /\ [][NextLink]_vars

(* ------------------------------------------------------------ move calls *)
\* A world whose marble was created with a Location naming the book, an
\* entity without a Container.
BrokenScene ==
  new(main, marble,
      [Name |-> Name(<<"marble">>, "a"),
       Description |-> "A white marble.",
       Location |-> book])

MoveEntities == {plant, livingroom, player, book, box, dice, marble}

InitMove ==
  /\ scene \in {main, BrokenScene}
  /\ line = <<>>
  /\ out = <<>>
  /\ status = "running"
  /\ exc = "none"
  /\ mv = <<>>
  /\ turns = 0
  /\ link = NoLink
  /\ prev = NoTurn
  /\ find = NoFind

\* A call move(scene, e, c) whose exception, if any, the caller catches.
Move(e, c) ==
  /\ turns < MaxMoves
  /\ LET r == move(scene, e, c)
     IN /\ scene' = r.scene
        /\ exc' = r.exc
        /\ mv' = <<MoveCall(scene, e, c)>>
  /\ turns' = turns + 1
  /\ UNCHANGED <<line, out, status, link, prev, find>>

NextMove == \E e \in MoveEntities, c \in MoveEntities : Move(e, c)

SpecMove == InitMove /\ [][NextMove]_vars

(* ------------------------------------------------------ findByName calls *)
\* A world with a duplicated name: the marble is a second book, carried by
\* the player, and the shovel has no Name.
DupScene ==
  LET s1 == new(main, marble,
                [Name |-> Name(<<"book">>, "a"),
                 Description |-> "A second book.",
                 Inscription |-> "Second.",
                 Location |-> livingroom])
      s2 == move(s1, marble, player).scene
      s3 == new(s2, shovel,
                [Description |-> "A small chrome shovel.",
                 Location |-> garden])
  IN s3

FindEntities == {book, marble, box, shovel}

FindNames == {<<"book">>, <<"Book">>, <<"box">>, <<"unicorn">>}

\* The sequences over S of length at most n.
RECURSIVE SeqsUpTo(_, _)
SeqsUpTo(S, n) ==
  IF n = 0 THEN {<<>>}
  ELSE LET shorter == SeqsUpTo(S, n - 1)
       IN shorter \cup {Append(q, x) : q \in shorter, x \in S}

SiteLines ==
  { Spaced(ws) : ws \in { <<"look", "book">>, <<"take", "book">>,
                          <<"drop", "book">>, <<"read", "book">> } }

InitFind ==
  /\ scene = DupScene
  /\ line = <<>>
  /\ out = cmdLook(DupScene, player, <<>>).msg
  /\ status = "running"
  /\ exc = "none"
  /\ mv = <<>>
  /\ turns = 0
  /\ link = NoLink
  /\ prev = NoTurn
  /\ find = NoFind

\* A call findByName(scene, name, candidates).
Find(name, candidates) ==
  /\ find' = [name |-> name, candidates |-> candidates,
               result |-> findByName(scene, name, candidates)]
  /\ UNCHANGED <<scene, line, out, status, exc, mv, turns, link, prev>>

\* The first turn of a play in the world with the duplicated name.
SiteTurn(l) == turns = 0 /\ onUpdate(l)

NextFind ==
  \/ \E name \in FindNames, candidates \in SeqsUpTo(FindEntities, MaxCandidates) :
       Find(name, candidates)
  \/ \E l \in SiteLines : SiteTurn(l)

SpecFind == InitFind /\ [][NextFind]_vars

(* ================================================================ claims *)
\* The handler a line is dispatched to: "" for a line without a token,
\* "unknown" for a first token that is not in the command table.
HandlerOf(l) ==
  LET toks == Tokens(l) IN
  IF toks = <<>> THEN ""
  ELSE IF toks[1] \in DOMAIN COMMANDS THEN COMMANDS[toks[1]] ELSE "unknown"

ArgsOf(l) == IF Tokens(l) = <<>> THEN <<>> ELSE Tail(Tokens(l))

\* The containers (entities with a Container) that list e as a member.
Holders(s, e) == {c \in Entities : has(s, c, {"Container"}) /\ e \in Range(s.Container[c])}

C1_Witness ==
  /\ mv # <<>>
  /\ mv[1].ok /\ mv[1].had /\ mv[1].prev # mv[1].container
  /\ mv[1].entity = dice /\ mv[1].prev = box /\ mv[1].container = player

C2_SingleOwnership ==
  \A e \in Entities :
    has(scene, e, {"Location"}) =>
      /\ has(scene, scene.Location[e], {"Container"})
      /\ Holders(scene, e) = {scene.Location[e]}
      /\ Count(scene.Container[scene.Location[e]], e) = 1

\* The book has been taken and dropped into the box.
C2_Witness ==
  /\ turns >= 2
  /\ scene.Location[book] = box
  /\ book \in Range(scene.Container[box])
  /\ status = "running"

\* C3: every member of every Container has a Location, and that Location is
\* the entity owning the Container.
C3_MembersLocated ==
  \A c \in Entities :
    has(scene, c, {"Container"}) =>
      \A i \in 1 .. Len(scene.Container[c]) :
        /\ has(scene, scene.Container[c][i], {"Location"})
        /\ scene.Location[scene.Container[c][i]] = c

\* C4: no sequence of input lines makes an assertion of a handler or of move
\* fail.
C4_NoAssertionFails == exc # "AssertionError"

\* C5: every line read gets exactly one response, the handler's when the first
\* token is in the command table and else the unknown-command message with the
\* world unchanged, and no line ends the turn loop.
C5_EveryLineAnswered ==
  [][/\ status' = "running"
     /\ exc' = "none"
     /\ out' # <<>>
     /\ HandlerOf(line') \in Range(COMMANDS)
          => out' = Call(HandlerOf(line'), scene, player, ArgsOf(line')).msg
     /\ HandlerOf(line') \notin Range(COMMANDS)
          => (out' = UnknownCommand /\ scene' = scene)]_vars

\* The number of places where " sep " occurs in " ".join(ws).
Occurrences(ws, sep) == Cardinality({i \in 2 .. (Len(ws) - 1) : ws[i] = sep})

\* C6: take (drop) with an argument text that holds " from " (" into ") more
\* than once returns a response message and raises no error.
C6_RepeatedSeparatorAnswered ==
  ((HandlerOf(line) = "cmdTake" /\ Occurrences(ArgsOf(line), "from") > 1)
     \/ (HandlerOf(line) = "cmdDrop" /\ Occurrences(ArgsOf(line), "into") > 1))
    => (exc = "none" /\ out # <<>>)

GoHandlers ==
  {"cmdGo", "cmdNorth", "cmdSouth", "cmdEast", "cmdWest", "cmdNorthwest",
   "cmdSouthwest", "cmdNortheast", "cmdSoutheast", "cmdUp", "cmdDown"}

\* The response o of handler h, leaving the scene s, reports a failure:
\* it is not "Taken.", not "Dropped." and not the description of the room.
IsFailure(h, o, s) ==
  CASE h = "cmdTake" -> o # <<"Taken.">>
    [] h = "cmdDrop" -> o # <<"Dropped.">>
    [] OTHER -> o # cmdLook(s, player, <<>>).msg

\* C7: when take, drop or go returns a failure message, every Location and
\* every Container membership is what it was before the command.
C7_FailureChangesNothing ==
  [][(/\ HandlerOf(line') \in {"cmdTake", "cmdDrop"} \cup GoHandlers
      /\ exc' = "none"
      /\ IsFailure(HandlerOf(line'), out', scene'))
       => (/\ scene'.Location = scene.Location
           /\ scene'.Container = scene.Container
           /\ scene'.comps = scene.comps)]_vars

\* take plant has been rejected.
C7_Witness ==
  /\ Tokens(line) = <<"take", "plant">>
  /\ out = <<"You are unable to take that.">>
  /\ exc = "none"

\* C8: look, examine, inventory, read and help change no component, and look
\* without arguments issued twice in a row yields the same response twice.
C8_ReadOnlyCommands ==
  [][/\ HandlerOf(line') \in {"cmdLook", "cmdExamine", "cmdInventory", "cmdRead", "cmdHelp"}
          => scene' = scene
     /\ (LookedAround /\ LookedAround') => out' = out]_vars

\* look has answered twice in a row, after a command that changed the world.
C8_Witness ==
  /\ turns >= 3
  /\ prev.look
  /\ LookedAround
  /\ scene # main

\* The fixed table of opposite directions.
Opposite(d) ==
  CASE d = "north" -> "south"
    [] d = "south" -> "north"
    [] d = "east" -> "west"
    [] d = "west" -> "east"
    [] d = "northeast" -> "southwest"
    [] d = "southwest" -> "northeast"
    [] d = "southeast" -> "northwest"
    [] d = "northwest" -> "southeast"
    [] d = "up" -> "down"
    [] d = "down" -> "up"

TenDirections ==
  {"north", "south", "east", "west", "northeast", "southwest", "southeast",
   "northwest", "up", "down"}

\* C9: for a recognized direction d and entities a, b that have a Map, the
\* call maplink(a, d, b) returns and leaves Map(a)[d] = b and
\* Map(b)[opposite(d)] = a.
C9_MaplinkSymmetry ==
  (/\ link.source # None
   /\ link.direction \in TenDirections
   /\ has(scene, link.source, {"Map"})
   /\ has(scene, link.destination, {"Map"}))
    => /\ link.exc = "none"
       /\ MapHas(scene.Map[link.source], link.direction)
       /\ MapGet(scene.Map[link.source], link.direction) = link.destination
       /\ MapHas(scene.Map[link.destination], Opposite(link.direction))
       /\ MapGet(scene.Map[link.destination], Opposite(link.direction)) = link.source

\* A room has been linked to itself, after an earlier link.
C9_Witness ==
  /\ turns = 2
  /\ link.exc = "none"
  /\ link.source = garden
  /\ link.destination = garden
  /\ link.direction = "northeast"

\* The direction text cmdGo looks up for the line l: the words after go, or
\* the direction word followed by the other words, an abbreviation standing
\* alone expanded.
DirectionOf(l) ==
  LET h == HandlerOf(l)
      word == CASE h = "cmdNorth" -> <<"north">>
                [] h = "cmdSouth" -> <<"south">>
                [] h = "cmdEast" -> <<"east">>
                [] h = "cmdWest" -> <<"west">>
                [] h = "cmdNorthwest" -> <<"northwest">>
                [] h = "cmdSouthwest" -> <<"southwest">>
                [] h = "cmdNortheast" -> <<"northeast">>
                [] h = "cmdSoutheast" -> <<"southeast">>
                [] h = "cmdUp" -> <<"up">>
                [] h = "cmdDown" -> <<"down">>
                [] OTHER -> <<>>
      text == word \o ArgsOf(l)
  IN IF Len(text) = 1 /\ text[1] \in DOMAIN expansion THEN <<expansion[text[1]]>> ELSE text

\* C10: go <direction>, in a location that has a Map: a direction that is not
\* a key of the Map gives "You cannot go this way." and leaves the actor's
\* Location; otherwise the actor's Location becomes Map[direction], the actor
\* is a member of the destination's Container and not of the old one, and the
\* response is the response of look without arguments in the new state; west
\* from The Living Room gives a response that begins with "The Garden".
C10_Go ==
  [][(/\ HandlerOf(line') \in GoHandlers
      /\ DirectionOf(line') # <<>>
      /\ has(scene, player, {"Location"})
      /\ has(scene, scene.Location[player], {"Map"}))
       => LET old == scene.Location[player]
              map == scene.Map[old]
              d == DirectionOf(line')
          IN /\ exc' = "none"
             /\ IF Len(d) = 1 /\ MapHas(map, d[1])
                THEN /\ scene'.Location[player] = MapGet(map, d[1])
                     /\ player \in Range(scene'.Container[MapGet(map, d[1])])
                     /\ player \notin Range(scene'.Container[old])
                     /\ out' = cmdLook(scene', player, <<>>).msg
                     /\ (old = livingroom /\ d = <<"west">>)
                          => SubSeq(out', 1, 3) = <<"The", " ", "Garden">>
                ELSE /\ out' = <<"You cannot go this way.">>
                     /\ scene'.Location[player] = scene.Location[player]]_vars

\* The abbreviation w has led from The Living Room to The Garden.
C10_Witness ==
  /\ Tokens(line) = <<"w">>
  /\ scene.Location[player] = garden
  /\ SubSeq(out, 1, 3) = <<"The", " ", "Garden">>
  /\ turns = 1

\* go has been refused for a direction without an edge.
C10_WitnessRefused ==
  /\ Tokens(line) = <<"go", "up">>
  /\ out = <<"You cannot go this way.">>

\* The first candidate, in the order of the sequence, whose Name equals name
\* when case is ignored; None when there is none.
FirstNamed(s, name, candidates) ==
  LET hits == {i \in 1 .. Len(candidates) :
                 /\ has(s, candidates[i], {"Name"})
                 /\ LowerAll(s.Name[candidates[i]].name) = LowerAll(name)}
  IN IF hits = {} THEN None
     ELSE candidates[CHOOSE i \in hits : \A j \in hits : i <= j]

\* The place of the only separator word sep in the argument text ws.
SeparatorAt(ws, sep) == CHOOSE i \in 2 .. (Len(ws) - 1) : ws[i] = sep

\* The thing name and the container name of an argument text with at most
\* one separator.
ThingName(ws, sep) ==
  IF Occurrences(ws, sep) = 1 THEN SubSeq(ws, 1, SeparatorAt(ws, sep) - 1) ELSE ws

ContainerName(ws, sep) == SubSeq(ws, SeparatorAt(ws, sep) + 1, Len(ws))

\* The string x occurs in the string m.
OccursIn(x, m) == \E k \in 1 .. (Len(m) - Len(x) + 1) : SubSeq(m, k, k + Len(x) - 1) = x

\* C11: take <thing> and take <thing> from <container>: the thing is the first
\* match among the members of the location's Container followed by the
\* actor's, or among the members of the named container (the first match in
\* that combined scope, which must have a Container). A thing located in the
\* actor gives "You already have that.", a thing with Environment "You are
\* unable to take that."; any other thing ends in the actor's Container with
\* Location = actor, and inventory then lists it.
C11_Take ==
  [][(/\ HandlerOf(line') = "cmdTake"
      /\ ArgsOf(line') # <<>>
      /\ Occurrences(ArgsOf(line'), "from") <= 1)
       => \A args \in {ArgsOf(line')} :
          \A scope \in {scene.Container[scene.Location[player]] \o scene.Container[player]} :
          \A clause \in {Occurrences(args, "from") = 1} :
          \A holder \in {IF clause THEN FirstNamed(scene, ContainerName(args, "from"), scope)
                         ELSE None} :
            (clause => (holder # None /\ has(scene, holder, {"Container"})))
              => \A thing \in {FirstNamed(scene, ThingName(args, "from"),
                                          IF clause THEN scene.Container[holder] ELSE scope)} :
                   thing # None
                     => /\ exc' = "none"
                        /\ IF has(scene, thing, {"Location"}) /\ scene.Location[thing] = player
                           THEN out' = <<"You already have that.">> /\ scene' = scene
                           ELSE IF has(scene, thing, {"Environment"})
                           THEN out' = <<"You are unable to take that.">> /\ scene' = scene
                           ELSE /\ out' = <<"Taken.">>
                                /\ has(scene', thing, {"Location"})
                                /\ scene'.Location[thing] = player
                                /\ thing \in Range(scene'.Container[player])
                                /\ \A listing \in {cmdInventory(scene', player, <<>>).msg} :
                                     /\ OccursIn(<<"\n  ">> \o NameGet(scene.Name[thing], FALSE),
                                                 listing)
                                     /\ thing = dice
                                          => OccursIn(<<"\n  ", "a", " ", "die">>, listing)]_vars

\* take die from box has moved the die from the box into the inventory.
C11_Witness ==
  /\ Tokens(line) = <<"take", "die", "from", "box">>
  /\ out = <<"Taken.">>
  /\ scene.Location[dice] = player
  /\ dice \in Range(scene.Container[player])
  /\ dice \notin Range(scene.Container[box])

\* C12: drop <thing> and drop <thing> into <container>, for a thing that
\* resolves from the actor's Container followed by the location's: a thing the
\* actor does not hold (its Location is not the actor, or it has no Location)
\* and a thing that is the container itself are rejected with a response
\* message; any other thing is moved into the named container, or into the
\* actor's location without an into-clause, and the response is "Dropped.".
C12_Drop ==
  [][(/\ HandlerOf(line') = "cmdDrop"
      /\ ArgsOf(line') # <<>>
      /\ Occurrences(ArgsOf(line'), "into") <= 1)
       => \A args \in {ArgsOf(line')} :
          \A scope \in {scene.Container[player] \o scene.Container[scene.Location[player]]} :
          \A clause \in {Occurrences(args, "into") = 1} :
          \A target \in {IF clause THEN FirstNamed(scene, ContainerName(args, "into"), scope)
                         ELSE scene.Location[player]} :
            (clause => (target # None /\ has(scene, target, {"Container"})))
              => \A thing \in {FirstNamed(scene, ThingName(args, "into"), scope)} :
                   thing # None
                     => /\ exc' = "none"
                        /\ IF \/ ~has(scene, thing, {"Location"})
                              \/ scene.Location[thing] # player
                              \/ thing = target
                           THEN /\ out' # <<>>
                                /\ out' # <<"Dropped.">>
                                /\ scene' = scene
                           ELSE /\ out' = <<"Dropped.">>
                                /\ scene'.Location[thing] = target
                                /\ thing \in Range(scene'.Container[target])]_vars

\* C13: findByName returns the first candidate, in sequence order, that has a
\* Name matching the name without regard to case, and None when there is none;
\* the result stands at or before every candidate that matches, so it is never
\* the later one of two that match. In the world with a
\* book in the room and a second "Book" in the inventory, look and take
\* resolve "book" to the one in the room, drop and read to the one held.
C13_FindByName ==
  /\ find # NoFind
       => /\ find.result = FirstNamed(scene, find.name, find.candidates)
          /\ \A i \in 1 .. Len(find.candidates) :
               (/\ has(scene, find.candidates[i], {"Name"})
                /\ LowerAll(scene.Name[find.candidates[i]].name) = LowerAll(find.name))
                 => \E k \in 1 .. i : find.candidates[k] = find.result
  /\ turns = 1
       => /\ exc = "none"
          /\ HandlerOf(line) = "cmdLook" => out = <<DupScene.Description[book]>>
          /\ HandlerOf(line) = "cmdTake"
               => /\ out = <<"Taken.">>
                  /\ scene.Location[book] = player
                  /\ scene.Location[marble] = player
                  /\ marble \in Range(scene.Container[player])
          /\ HandlerOf(line) = "cmdDrop"
               => /\ out = <<"Dropped.">>
                  /\ scene.Location[marble] = livingroom
                  /\ scene.Location[book] = livingroom
          /\ HandlerOf(line) = "cmdRead"
               => out = <<"It says: '", DupScene.Inscription[marble], "'">>

C13_Witness ==
  /\ find.name = <<"Book">>
  /\ find.candidates = <<marble, book>>
  /\ find.result = marble
  /\ DupScene.Name[marble] = DupScene.Name[book]
  /\ turns = 1
  /\ HandlerOf(line) = "cmdDrop"

\* C14: during play no command changes a Map, a Name, a Description, an
\* Inscription or an Environment, and none creates or destroys an entity or a
\* component; a turn that changes the scene changes it by one call of move,
\* that is in Location values and Container memberships as move changes them.
C14_Frame ==
  [][/\ scene'.Map = scene.Map
     /\ scene'.Name = scene.Name
     /\ scene'.Description = scene.Description
     /\ scene'.Inscription = scene.Inscription
     /\ scene'.Environment = scene.Environment
     /\ scene'.comps = scene.comps
     /\ scene' # scene
          => /\ Len(mv') = 1
             /\ mv'[1].ok
             /\ scene' = move(scene, mv'[1].entity, mv'[1].container).scene]_vars

C14_Witness ==
  /\ turns >= 2
  /\ Len(mv) = 1
  /\ scene.Location # main.Location
  /\ scene.Container # main.Container
  /\ HandlerOf(line) = "cmdDrop"

\* C15: maplink(source, direction, destination) fails when the direction is
\* not one of the ten recognized directions or when an endpoint has no Map,
\* and a failing call leaves every Map, and the rest of the scene, unchanged.
C15_MaplinkFailure ==
  [][/\ (\/ link'.direction \notin TenDirections
         \/ ~has(scene, link'.source, {"Map"})
         \/ ~has(scene, link'.destination, {"Map"}))
          => link'.exc = "AssertionError"
     /\ link'.exc # "none" => scene' = scene]_vars

\* After a link that succeeded, a call with a recognized direction from a
\* room to an entity without a Map has failed.
C15_Witness ==
  /\ turns = 2
  /\ scene # Rooms
  /\ link.exc = "AssertionError"
  /\ link.direction \in TenDirections
  /\ has(scene, link.source, {"Map"})
  /\ ~has(scene, link.destination, {"Map"})

\* A call with a direction that is not recognized has failed.
C15_WitnessDirection ==
  /\ link.exc = "AssertionError"
  /\ link.direction \notin TenDirections
  /\ has(scene, link.source, {"Map"})
  /\ has(scene, link.destination, {"Map"})

\* C16: move(entity, destination) fails when the destination has no
\* Container, and when the entity has a Location whose target has no
\* Container; a failing call leaves the entity's Location and every Container
\* (the whole scene) unchanged.
C16_MoveFailure ==
  [][\A call \in {mv'[1]} :
       /\ ~has(scene, call.container, {"Container"}) => exc' = "AssertionError"
       /\ (has(scene, call.entity, {"Location"})
             /\ ~has(scene, scene.Location[call.entity], {"Container"}))
            => exc' = "AssertionError"
       /\ exc' # "none"
            => /\ scene'.Location = scene.Location
               /\ scene'.Container = scene.Container
               /\ scene' = scene]_vars

\* After a move that succeeded, a located member of a container was moved to
\* an entity without a Container and the call failed.
C16_Witness ==
  /\ turns = 2
  /\ scene \notin {main, BrokenScene}
  /\ exc = "AssertionError"
  /\ has(scene, mv[1].entity, {"Location"})
  /\ has(scene, scene.Location[mv[1].entity], {"Container"})
  /\ mv[1].entity \in Range(scene.Container[scene.Location[mv[1].entity]])
  /\ ~has(scene, mv[1].container, {"Container"})

\* An entity whose Location names an entity without a Container was moved to
\* a container and the call failed.
C16_WitnessLocation ==
  /\ exc = "AssertionError"
  /\ has(scene, mv[1].container, {"Container"})
  /\ has(scene, mv[1].entity, {"Location"})
  /\ ~has(scene, scene.Location[mv[1].entity], {"Container"})

\* The place of the first piece x in the string m, 0 when there is none.
PlaceOf(x, m) ==
  IF \E k \in 1 .. Len(m) : m[k] = x
  THEN CHOOSE k \in 1 .. Len(m) : m[k] = x /\ \A j \in 1 .. (k - 1) : m[j] # x
  ELSE 0

\* The "Here is/are ..." sentence of a response of look, empty when there is
\* none, and the part of the response before it and before the exits.
ListingOf(m) ==
  IF PlaceOf("Here ", m) = 0 THEN <<>>
  ELSE SubSeq(m, PlaceOf("Here ", m), PlaceOf("You can go ", m) - 1)

PrologueOf(m) ==
  SubSeq(m, 1, (IF PlaceOf("Here ", m) = 0 THEN PlaceOf("You can go ", m)
                ELSE PlaceOf("Here ", m)) - 1)

\* The names as a sentence: "a", "a and b", "a, b and c".
RECURSIVE Sentence(_)
Sentence(names) ==
  IF Len(names) = 0 THEN <<>>
  ELSE IF Len(names) = 1 THEN names[1]
  ELSE IF Len(names) = 2 THEN names[1] \o <<" ", "and", " ">> \o names[2]
  ELSE names[1] \o <<", ">> \o Sentence(Tail(names))

\* C17: in the response of look without arguments, a member of the
\* location's Container that carries an Environment is not named in the
\* "Here is/are ..." sentence, and its Environment text, when not empty,
\* follows the location's description, in container order; the sentence names
\* exactly the members that have a Name, are not the actor and carry no
\* Environment, in container order.
C17_LookListing ==
  LookedAround
    => \A location \in {scene.Location[player]} :
       \A members \in {scene.Container[location]} :
       \A listed \in {SelectSeq(members, LAMBDA e : /\ has(scene, e, {"Name"})
                                                     /\ e # player
                                                     /\ ~has(scene, e, {"Environment"}))} :
       \A texts \in {SelectSeq(members, LAMBDA e : /\ has(scene, e, {"Environment"})
                                                    /\ scene.Environment[e] # "")} :
         /\ \A e \in Range(members) :
              (has(scene, e, {"Environment"}) /\ has(scene, e, {"Name"}))
                => ~OccursIn(Words(scene.Name[e].name), ListingOf(out))
         /\ PrologueOf(out)
              = NameGet(scene.Name[location], FALSE)
                  \o <<"\n\n", scene.Description[location]>>
                  \o [i \in 1 .. (2 * Len(texts)) |->
                        IF i % 2 = 1 THEN " " ELSE scene.Environment[texts[i \div 2]]]
                  \o <<"\n\n">>
         /\ ListingOf(out)
              = IF listed = <<>> THEN <<>>
                ELSE <<"Here ", IF Len(listed) = 1 THEN "is" ELSE "are", " ">>
                       \o Sentence([i \in 1 .. Len(listed) |->
                                      NameGet(scene.Name[listed[i]], FALSE)])
                       \o <<".\n\n">>

\* A look, after a move, in a room with scenery and at least two things that
\* are listed.
C17_Witness ==
  /\ LookedAround
  /\ turns >= 2
  /\ scene # main
  /\ \E e \in Range(scene.Container[scene.Location[player]]) :
       has(scene, e, {"Environment"}) /\ scene.Environment[e] # ""
  /\ Len(ListingOf(out)) > 8

\* The thing names tried after look, l, examine and x.
ThingTexts == {<<"book">>, <<"box">>, <<"plant">>, <<"the", "garden">>, <<"unicorn">>}

\* C18: in every state each direction d with abbreviation a gives the same
\* response and the same resulting scene as the lines d, a, go d and go a;
\* likewise l and look, i and inventory, x and examine (alone and followed by
\* a thing name), and examine <thing> and look <thing>.
C18_Abbreviations ==
  /\ \A a \in DOMAIN expansion :
       \A r \in {update(scene, player, <<expansion[a]>>)} :
         /\ update(scene, player, <<a>>) = r
         /\ update(scene, player, <<"go", " ", expansion[a]>>) = r
         /\ update(scene, player, <<"go", " ", a>>) = r
  /\ \A args \in ThingTexts \cup {<<>>} :
       /\ update(scene, player, Spaced(<<"l">> \o args))
            = update(scene, player, Spaced(<<"look">> \o args))
       /\ update(scene, player, Spaced(<<"i">> \o args))
            = update(scene, player, Spaced(<<"inventory">> \o args))
       /\ update(scene, player, Spaced(<<"x">> \o args))
            = update(scene, player, Spaced(<<"examine">> \o args))
  /\ \A args \in ThingTexts :
       update(scene, player, Spaced(<<"examine">> \o args))
         = update(scene, player, Spaced(<<"look">> \o args))

\* The player has gone to the garden by go w, and w from there is refused as
\* west, go west and go w are.
C18_Witness ==
  /\ Tokens(line) = <<"go", "w">>
  /\ exc = "none"
  /\ mv # <<>>
  /\ scene.Location[player] = garden
  /\ update(scene, player, <<"w">>).msg = <<"You cannot go this way.">>
  /\ update(scene, player, <<"e">>).scene.Location[player] = livingroom

\* The entities reached from e by following Location n times or fewer, e
\* itself left out.
RECURSIVE Above(_, _, _)
Above(s, e, n) ==
  IF n = 0 \/ ~has(s, e, {"Location"}) THEN {}
  ELSE {s.Location[e]} \cup Above(s, s.Location[e], n - 1)

\* C19: in every state of the play the containment relation is acyclic: no
\* entity's Location is the entity, following Location from an entity never
\* comes back to it, and the player's Location is a room (it has a Map).
C19_Acyclic ==
  /\ \A e \in Entities : has(scene, e, {"Location"}) => scene.Location[e] # e
  /\ \A e \in Entities : e \notin Above(scene, e, Cardinality(Entities))
  /\ has(scene, scene.Location[player], {"Map"})

\* The map graph is bidirectional: an edge d from a to b has the edge
\* opposite(d) from b to a.
Bidirectional(s) ==
  \A a \in Entities, b \in Entities, d \in TenDirections :
    (has(s, a, {"Map"}) /\ MapHas(s.Map[a], d) /\ MapGet(s.Map[a], d) = b)
      => /\ has(s, b, {"Map"})
         /\ MapHas(s.Map[b], Opposite(d))
         /\ MapGet(s.Map[b], Opposite(d)) = a

\* C20: after any sequence of successful maplink calls on entities whose Maps
\* were empty, calls that link a direction again included, the map graph is
\* bidirectional.
C20_Bidirectional == Bidirectional(scene)

\* The entities that carry an Environment in the scene s.
Scenery(s) == {e \in Entities : has(s, e, {"Environment"})}

\* C21: after any sequence of commands every entity that carries an
\* Environment is a member of the same Containers, and has the same Location
\* or none, as in the built world, and the player's Container has no entity
\* with an Environment as a member.
C21_SceneryStays ==
  /\ Scenery(scene) = Scenery(main)
  /\ \A e \in Scenery(main) :
       /\ has(scene, e, {"Location"}) = has(main, e, {"Location"})
       /\ scene.Location[e] = main.Location[e]
       /\ \A c \in Entities :
            Count(scene.Container[c], e) = Count(main.Container[c], e)
  /\ \A e \in Range(scene.Container[player]) : e \notin Scenery(scene)

\* After a turn that moved something, take has been tried on a piece of
\* scenery of the room and was refused.
C21_Witness ==
  /\ turns >= 2
  /\ scene # main
  /\ HandlerOf(line) = "cmdTake"
  /\ out = <<"You are unable to take that.">>
  /\ FirstNamed(scene, ArgsOf(line),
                scene.Container[scene.Location[player]] \o scene.Container[player])
       \in Scenery(scene)

====
